---- MODULE Spec2Model ----
(***************************************************************************)
(* Streaming pipeline of ollama-ui: the relay of POST /api/chat            *)
(* (src/app/api/chat/route.ts), the chat hook useChat                      *)
(* (src/app/hooks/useChat.tsx) and the page component Home                 *)
(* (src/app/page.tsx), which carries its own copy of the send/cancel code. *)
(*                                                                         *)
(* Text is a sequence of one-character strings.  A JSON line is written    *)
(* with the characters                                                     *)
(*    "{" ... "}"   an object,                                             *)
(*    "a", "b"      characters of the content text,                        *)
(*    "D"           the upstream fields  "done":true, eval_count, ...      *)
(*    "S", "T"      the "stats" member of a relay frame (two payloads),    *)
(*    "x"           non-JSON noise,  " " white space,  NL the newline.     *)
(***************************************************************************)
EXTENDS Integers, Sequences, FiniteSets, TLC

\* ------------------------------------------------------------------ bounds
MaxLines == 2      \* upstream lines before the final record
MaxReads == 3      \* network reads one upstream body is cut into

NL == "\n"
SP == " "

\* ------------------------------------------------------------ line framing
RECURSIVE SplitFrom(_, _, _)
\* String.prototype.split("\n"): the segments between newlines, empty
\* segments included ("a\n" gives <<"a", "">>).
SplitFrom(s, i, cur) ==
  IF i > Len(s) THEN <<cur>>
  ELSE IF s[i] = NL THEN <<cur>> \o SplitFrom(s, i + 1, <<>>)
  ELSE SplitFrom(s, i + 1, Append(cur, s[i]))

Split(s) == SplitFrom(s, 1, <<>>)

RECURSIVE TrimLeft(_)
TrimLeft(s) == IF s # <<>> /\ Head(s) = SP THEN TrimLeft(Tail(s)) ELSE s

RECURSIVE TrimRight(_)
TrimRight(s) ==
  IF s # <<>> /\ s[Len(s)] = SP THEN TrimRight(SubSeq(s, 1, Len(s) - 1)) ELSE s

\* String.prototype.trim
Trim(s) == TrimRight(TrimLeft(s))

IsNonBlank(line) == Trim(line) # <<>>

\* chunk.split("\n").filter((line) => line.trim()): no fragment is carried
\* over from one chunk to the next.
ChunkLines(chunk) == SelectSeq(Split(chunk), IsNonBlank)

\* ------------------------------------------------------- upstream protocol
ContentChars == {"a", "b"}

RECURSIVE AllIn(_, _)
AllIn(s, set) == s = <<>> \/ (Head(s) \in set /\ AllIn(Tail(s), set))

\* JSON.parse of an upstream line: an object "{" text ["D"] "}" parses,
\* anything else (noise, a piece of an object) throws.
UpstreamBody(line) == SubSeq(Trim(line), 2, Len(Trim(line)) - 1)

UpstreamHasDone(line) ==
  UpstreamBody(line) # <<>> /\ UpstreamBody(line)[Len(UpstreamBody(line))] = "D"

UpstreamContent(line) ==
  IF UpstreamHasDone(line)
  THEN SubSeq(UpstreamBody(line), 1, Len(UpstreamBody(line)) - 1)
  ELSE UpstreamBody(line)

ParsesUpstream(line) ==
  LET t == Trim(line) IN
    /\ Len(t) >= 2
    /\ t[1] = "{"
    /\ t[Len(t)] = "}"
    /\ AllIn(UpstreamContent(line), ContentChars)

\* a frame with the first character of the text only
ContentFrameCut(c) == [content |-> SubSeq(c, 1, 1), stats |-> FALSE]

\* { content: data.message.content }
ContentFrame(c) == [content |-> c, stats |-> FALSE]
StatsFrame == [content |-> <<>>, stats |-> TRUE]

\* The frames the relay enqueues for one line (body of the for loop).
LineFrames(line) ==
  IF ~ParsesUpstream(line) THEN <<>>
  ELSE (IF UpstreamContent(line) # <<>>
        THEN <<ContentFrame(UpstreamContent(line))>> ELSE <<>>)
       \o (IF UpstreamHasDone(line) THEN <<StatsFrame>> ELSE <<>>)

RECURSIVE FramesOf(_)
RECURSIVE FramesOfUntilThrow(_)
\* the for loop without the try/catch around JSON.parse: the first line
\* that does not parse ends it
FramesOfUntilThrow(lines) ==
  IF lines = <<>> \/ ~ParsesUpstream(Head(lines)) THEN <<>>
  ELSE LineFrames(Head(lines)) \o FramesOfUntilThrow(Tail(lines))

\* the for loop over the lines of one chunk
FramesOf(lines) ==
  IF lines = <<>> THEN <<>> ELSE LineFrames(Head(lines)) \o FramesOf(Tail(lines))

\* ---------------------------------------------------------- upstream texts
BodyLines ==
  { <<"{", "a", "}">>, <<"{", "a", "b", "}">>, <<"x">>, <<SP>>, <<"{", "}">> }

FinalLines == { <<"{", "D", "}">>, <<"{", "b", "D", "}">> }

RECURSIVE Join(_)
\* every line followed by its newline
Join(lines) ==
  IF lines = <<>> THEN <<>> ELSE Head(lines) \o <<NL>> \o Join(Tail(lines))

BodySeqs == UNION { [1..n -> BodyLines] : n \in 0..MaxLines }

\* An upstream body: some lines, then the record with done:true (with or
\* without a newline after it), or a body that ends before that record.
UpstreamTexts ==
  { Join(b) : b \in BodySeqs }
  \cup { Join(b) \o f \o <<NL>> : b \in BodySeqs, f \in FinalLines }
  \cup { Join(b) \o f : b \in BodySeqs, f \in FinalLines }

ReachesDone(text) == \E i \in 1..Len(text) : text[i] = "D"

\* ------------------------------------------------------- relay -> client
\* JSON.stringify(frame) + "\n", as enqueued by the relay; a stats frame
\* carries one of two payloads, "S" or "T".
SerContent(c) == <<"{">> \o c \o <<"}", NL>>
SerStats(p) == <<"{", p, "}", NL>>

StatsChars == {"S", "T"}

FrameBody(line) == SubSeq(Trim(line), 2, Len(Trim(line)) - 1)

FrameHasStats(line) ==
  FrameBody(line) # <<>> /\ FrameBody(line)[Len(FrameBody(line))] \in StatsChars

\* data.content
FrameContent(line) ==
  IF FrameHasStats(line)
  THEN SubSeq(FrameBody(line), 1, Len(FrameBody(line)) - 1)
  ELSE FrameBody(line)

\* JSON.parse of a line of the relay's output
ParsesFrame(line) ==
  LET t == Trim(line) IN
    /\ Len(t) >= 2
    /\ t[1] = "{"
    /\ t[Len(t)] = "}"
    /\ AllIn(FrameContent(line), ContentChars)

None == <<>>
Some(x) == <<x>>

\* A member of data.stats is None when it is missing and Some(n) when it
\* is the number n; the durations are counted in units of 10^8 ns so that the
\* arithmetic stays inside TLC's integers.  The two payloads:
\*   "S": eval_count 5, eval_duration 2000000000 ns, prompt_eval_count 2,
\*        prompt_eval_duration 1000000000 ns, total_duration 4000000000 ns
\*   "T": eval_count 3, eval_duration 0, the others missing
RawStats(p) ==
  IF p = "S"
  THEN [ eval_count |-> Some(5), eval_duration |-> Some(20),
         prompt_eval_count |-> Some(2), prompt_eval_duration |-> Some(10),
         total_duration |-> Some(40) ]
  ELSE [ eval_count |-> Some(3), eval_duration |-> Some(0),
         prompt_eval_count |-> None, prompt_eval_duration |-> None,
         total_duration |-> None ]

\* x ? ... : ... for a member x of data.stats: undefined and 0 are falsy
Truthy(x) == x # None /\ x[1] # 0

\* count / (duration / 1e9) as JavaScript computes it: a missing operand
\* gives NaN, a division by zero gives Infinity (NaN for 0 / 0), and a
\* number is kept as the fraction n / d.
Quotient(count, duration) ==
  IF count = None \/ duration = None THEN [k |-> "NaN", n |-> 0, d |-> 1]
  ELSE IF duration[1] = 0
       THEN (IF count[1] = 0 THEN [k |-> "NaN", n |-> 0, d |-> 1]
                             ELSE [k |-> "Infinity", n |-> 1, d |-> 0])
  ELSE [k |-> "num", n |-> count[1], d |-> duration[1]]

\* the quotient computed whatever the duration is
RateUnguarded(count, duration) == Some(Quotient(count, duration))

\* duration ? count / (duration / 1e9) : undefined
Rate(count, duration) ==
  IF Truthy(duration) THEN Some(Quotient(count, duration)) ELSE None

\* Math.round(x * 10) for x = count / (duration / 1e9): tenths, half up
Round10(count, duration) == (2 * count * 100 + duration) \div (2 * duration)

\* rate ? Math.round(rate * 10) / 10 : undefined; undefined, 0 and NaN are
\* falsy, Infinity is truthy and stays Infinity.  A number is kept in tenths.
Rounded(rate) ==
  IF rate = None THEN None
  ELSE IF rate[1].k = "num" /\ rate[1].n # 0
       THEN Some([k |-> "num", v |-> Round10(rate[1].n, rate[1].d)])
  ELSE IF rate[1].k = "Infinity" THEN Some([k |-> "Infinity", v |-> 0])
  ELSE None

\* The stats object built from data.stats; an undefined member is None,
\* generationTime and totalTime are kept in units of 10^8 ns.
DeriveStats(raw) ==
  [ tokensPerSecond |-> Rounded(Rate(raw.eval_count, raw.eval_duration)),
    promptTokensPerSecond |->
      Rounded(Rate(raw.prompt_eval_count, raw.prompt_eval_duration)),
    totalTokens |-> raw.eval_count,
    promptTokens |-> raw.prompt_eval_count,
    generationTime |->
      IF Truthy(raw.eval_duration) THEN raw.eval_duration ELSE None,
    totalTime |->
      IF Truthy(raw.total_duration) THEN raw.total_duration ELSE None ]

\* let stats = {}
EmptyStats ==
  [ tokensPerSecond |-> None, promptTokensPerSecond |-> None,
    totalTokens |-> None, promptTokens |-> None,
    generationTime |-> None, totalTime |-> None ]

FrameStats(line) == DeriveStats(RawStats(FrameBody(line)[Len(FrameBody(line))]))

\* The locals of the read loop and the state updates it has queued.
RECURSIVE ProcessLines(_, _)
ProcessLines(lines, acc) ==
  IF lines = <<>> THEN acc
  ELSE LET line == Head(lines)
           ok == ParsesFrame(line)
           hasC == ok /\ FrameContent(line) # <<>>
           hasS == ok /\ FrameHasStats(line)
           c == IF hasC THEN acc.content \o FrameContent(line) ELSE acc.content
           st == IF hasS THEN FrameStats(line) ELSE acc.stats
       IN ProcessLines(Tail(lines),
            [ content |-> c,
              stats |-> st,
              hasReceivedContent |-> acc.hasReceivedContent \/ hasC,
              streamingContent |-> IF hasC THEN c ELSE acc.streamingContent,
              currentStats |-> IF hasS THEN Some(st) ELSE acc.currentStats,
              deltas |-> acc.deltas + (IF hasC THEN 1 ELSE 0) ])

\* What one read of the response body can return.
ClientChunks ==
  { SerContent(<<"a">>), SerStats("S"),
    SerContent(<<"b">>) \o SerStats("T"), <<"{", "b">> }

\* ---------------------------------------------------------------- messages
UserTurn(text) == [role |-> "user", content |-> text, stats |-> None]
AssistantTurn(c, st) == [role |-> "assistant", content |-> c, stats |-> st]

CancelSuffix == " [Generation cancelled]"
RetryHint == "\n\n*You can retry this message using Ctrl+R*"
maxRetries == 3

ErrNoContent == "No content received from the model"
ErrRelay == "Failed to communicate with Ollama"
ErrHttp == "HTTP 500: Internal Server Error"
ErrFetch == "Failed to fetch"
ErrRead == "network error"
ErrPageHttp == "Failed to get response"

\* parseOllamaError(err).message for the errors above: none of them holds
\* ECONNREFUSED, "model not found" or "timeout", so the message is kept.
ParseOllamaError(msg) ==
  IF msg = "ECONNREFUSED" THEN "Cannot connect to Ollama"
  ELSE IF msg = "model not found" THEN "Model not found"
  ELSE IF msg = "timeout" THEN "Request timed out"
  ELSE msg

Toast(type, message) == [type |-> type, message |-> message]

\* addToast, a prop of the hook: the toasts are kept as the set of those
\* that have been added.
AddToast(ts, t) == ts \cup {t}

\* ------------------------------------------------------------- ChatStorage
STORAGE_VERSION == 1
\* 5 * 1024 * 1024 characters; lengths are counted in units of 1024 * 1024
MAX_STORAGE_SIZE == 5

StatsMembers == DOMAIN EmptyStats
RateMembers == {"tokensPerSecond", "promptTokensPerSecond"}

JsonNull == [k |-> "null", v |-> 0]

\* JSON.stringify of a stats object: a member that is undefined is left
\* out, a rate that is not a finite number is written as null
StringifyStats(st) ==
  [ m \in {x \in StatsMembers : st[x] # None} |->
      IF m \in RateMembers /\ st[m][1].k # "num" THEN JsonNull ELSE st[m][1] ]

\* JSON.parse of it: a member that is not there reads as undefined
ParseStats(j) ==
  [ m \in StatsMembers |-> IF m \in DOMAIN j THEN Some(j[m]) ELSE None ]

\* a turn written without its stats
StringifyTurnBare(turn) == [role |-> turn.role, content |-> turn.content]

\* JSON.stringify of a turn: stats is left out when it is undefined
StringifyTurn(turn) ==
  IF turn.stats = None
  THEN [role |-> turn.role, content |-> turn.content]
  ELSE [role |-> turn.role, content |-> turn.content,
        stats |-> StringifyStats(turn.stats[1])]

ParseTurn(j) ==
  [ role |-> j.role, content |-> j.content,
    stats |-> IF "stats" \in DOMAIN j THEN Some(ParseStats(j.stats)) ELSE None ]

StringifyTurns(msgs) == [i \in 1..Len(msgs) |-> StringifyTurn(msgs[i])]
ParseTurns(items) == [i \in 1..Len(items) |-> ParseTurn(items[i])]

\* The text of a localStorage item.  kind is "empty" for "", "garbage" for
\* a text that is not JSON, "null" for the JSON text null and "object" for
\* a JSON object with the members version, messages and model; messages is
\* an array (array = TRUE, its items) or something else.
Text(kind, version, array, items, model) ==
  [ kind |-> kind, version |-> version,
    messages |-> [array |-> array, items |-> items], model |-> model ]

\* JSON.stringify(data) for data = { version, messages, model, timestamp }
Serialized(msgs, model) ==
  Text("object", Some(STORAGE_VERSION), TRUE, StringifyTurns(msgs), Some(model))

\* the length of a turn in the text: a turn with the content "B" or "H"
\* stands for a long one, every other turn is short
TurnLength(j) ==
  IF j.content = <<"H">> THEN 6 ELSE IF j.content = <<"B">> THEN 3 ELSE 0

RECURSIVE ItemsLength(_)
ItemsLength(items) ==
  IF items = <<>> THEN 0 ELSE TurnLength(Head(items)) + ItemsLength(Tail(items))

\* serialized.length
TextLength(text) == ItemsLength(text.messages.items)

\* Array.prototype.slice(-k): the last k elements, everything for -0
SliceLast(msgs, k) ==
  IF k = 0 \/ k >= Len(msgs) THEN msgs
  ELSE SubSeq(msgs, Len(msgs) - k + 1, Len(msgs))

\* localStorage.setItem: "ok", or the exception it throws.  quota is the
\* room the browser leaves for the item, broken stands for a storage that
\* cannot be written at all (a SecurityError).
SetItem(text, quota, broken) ==
  IF broken THEN "other"
  ELSE IF TextLength(text) > quota THEN "quota" ELSE "ok"

\* the list written when the text is over the limit
Halved(msgs) == SliceLast(msgs, Len(msgs) \div 2)

\* ChatStorage.save(messages, model) on the item, with the storage as
\* given: what it returns, the item afterwards and which of its two
\* writes went through (0 for none)
Save(item, msgs, model, quota, broken) ==
  LET first == IF TextLength(Serialized(msgs, model)) > MAX_STORAGE_SIZE
               THEN Serialized(Halved(msgs), model)
               ELSE Serialized(msgs, model)
      recent == Serialized(SliceLast(msgs, 10), model)
      w1 == SetItem(first, quota, broken)
      w2 == SetItem(recent, quota, broken)
  IN IF w1 = "ok" THEN [ret |-> TRUE, item |-> Some(first), write |-> 1]
     ELSE IF w1 = "quota" /\ w2 = "ok"
     THEN [ret |-> TRUE, item |-> Some(recent), write |-> 2]
     ELSE [ret |-> FALSE, item |-> item, write |-> 0]

\* ChatStorage.load() on the item: what it returns (None for null) and the
\* item afterwards; clear() removes the item
Load(item) ==
  IF item = None \/ item[1].kind = "empty"
  THEN [ret |-> None, item |-> item]
  ELSE IF item[1].kind \in {"garbage", "null"}
  THEN [ret |-> None, item |-> None]
  ELSE IF item[1].version # Some(STORAGE_VERSION)
  THEN [ret |-> None, item |-> None]
  ELSE IF ~item[1].messages.array
  THEN [ret |-> None, item |-> None]
  ELSE [ret |-> Some([ messages |-> ParseTurns(item[1].messages.items),
                       model |-> item[1].model ]),
        item |-> item]

\* -------------------------------------------------------------------- state
VARIABLES
  upstreamText,   \* the whole body the upstream sends (fixed per behaviour)
  upstreamPos,    \* number of characters the relay has read
  relayReads,     \* number of reader.read() calls that returned data
  relayPc,        \* "request" | "failed" | "streaming" | "closed" | "errored"
  upstream,       \* what the upstream does with the request: "ok" |
                  \* "notOk" (a non-success status) | "rejects"
  upstreamRequests,   \* fetches the relay has made to the upstream
  relayStatus,    \* status of the relay's response, 0 before there is one
  relayBody,      \* None, or Some(the error of the JSON body)
  downPc,         \* "open" | "cancelled": the response stream, as the
                  \* client has left it
  readsAfterCancel,   \* reads of the upstream body since the cancel
  closeThrew,     \* controller.close() has thrown
  linesParsed,    \* the lines handed to JSON.parse so far
  downstream,     \* the frames enqueued on the response stream
  impl,           \* "hook": useChat; "page": the copy in Home
  messages, loading, streamingContent, currentStats,
  lastFailedMessage, input,          \* React state: the latest value set
  rendered,       \* the state as of the last render: what the callbacks
                  \* handed to the UI have closed over
  abortControllerRef,   \* 0 (null) or the controller made by that session
  aborted,              \* the controllers whose signal is aborted
  streamingTimeoutRef,  \* 0 (null) or the timer set by that session
  timers,               \* the timers that are set and not cleared or fired
  retryCountRef,
  sess,           \* the calls of sendMessageCore past their guard
  nsess,          \* how many there have been
  edits,          \* calls of clearChat/editMessage/deleteMessage so far
  nreads,         \* reads of response bodies that have returned data
  lastNoop,       \* the last call that returned at its guard, since the
                  \* last call of sendMessageCore that did not: "send" (one
                  \* made while a call was waiting), "cancel" or "none"
  stored,         \* localStorage: None or Some(the saved messages)
  toasts,         \* the toasts that have been added
  fnIn,           \* the argument a function is applied to on its own
  fnOut           \* what it has returned so far

relayVars ==
  <<upstreamText, upstreamPos, relayReads, relayPc, linesParsed, downstream,
    upstream, upstreamRequests, relayStatus, relayBody, downPc,
    readsAfterCancel, closeThrew>>

reactVars ==
  <<messages, loading, streamingContent, currentStats, lastFailedMessage, input>>

clientVars ==
  <<impl, reactVars, rendered, abortControllerRef, aborted,
    streamingTimeoutRef, timers, retryCountRef, sess, nsess, edits,
    nreads, lastNoop, stored, toasts>>

\* the argument and the result of a function of the program applied on its
\* own
fnVars == <<fnIn, fnOut>>

vars == <<relayVars, clientVars, fnVars>>

\* ------------------------------------------------------------------- relay
\* POST has been called and has not yet made its request
RelayStart ==
  /\ upstreamPos = 0
  /\ relayReads = 0
  /\ relayPc = "request"
  /\ linesParsed = <<>>
  /\ downstream = <<>>
  /\ upstreamRequests = 0
  /\ relayStatus = 0
  /\ relayBody = None
  /\ downPc = "open"
  /\ readsAfterCancel = 0
  /\ closeThrew = FALSE

\* the fetch resolves; response.ok is not looked at
UpstreamAnswered == upstream # "rejects"

\* the fetch resolves and response.ok holds
UpstreamAccepted == upstream = "ok"

\* await fetch(...); if (!response.ok) throw; then either the streaming
\* Response is returned or the outer catch answers with the JSON error body
RelayFetch ==
  /\ relayPc = "request"
  /\ upstreamRequests' = upstreamRequests + 1
  /\ IF UpstreamAccepted
     THEN /\ relayPc' = "streaming"
          /\ relayStatus' = 200
          /\ relayBody' = None
     ELSE /\ relayPc' = "failed"
          /\ relayStatus' = 500
          /\ relayBody' = Some(ErrRelay)
  /\ UNCHANGED <<upstreamText, upstreamPos, relayReads, linesParsed,
                 downstream, upstream, downPc, readsAfterCancel, closeThrew>>
  /\ UNCHANGED <<clientVars, fnVars>>

\* ReadableStreamDefaultControllerCanCloseOrEnqueue: the stream is readable
CanCloseOrEnqueue == downPc = "open" /\ relayPc = "streaming"

\* One turn of the while loop with done = false: the read returns the next
\* n characters, whatever n is.  On a stream the client has cancelled
\* controller.enqueue throws, and the catch around the line swallows it.
RelayRead(n) ==
  /\ relayPc = "streaming"
  /\ upstreamPos + n <= Len(upstreamText)
  /\ relayReads < MaxReads - 1 \/ upstreamPos + n = Len(upstreamText)
  /\ LET chunk == SubSeq(upstreamText, upstreamPos + 1, upstreamPos + n)
         lines == ChunkLines(chunk)
     IN /\ linesParsed' = linesParsed \o lines
        /\ downstream' = (IF CanCloseOrEnqueue
                          THEN downstream \o FramesOf(lines) ELSE downstream)
  /\ upstreamPos' = upstreamPos + n
  /\ relayReads' = relayReads + 1
  /\ readsAfterCancel' =
       (IF downPc = "cancelled" THEN readsAfterCancel + 1 ELSE readsAfterCancel)
  /\ UNCHANGED <<upstreamText, relayPc, upstream, upstreamRequests, relayStatus,
                 relayBody, downPc, closeThrew>>
  /\ UNCHANGED <<clientVars, fnVars>>

\* The read returns done: break, then controller.close() in finally, which
\* throws on a stream that is no longer readable.
RelayDone ==
  /\ relayPc = "streaming"
  /\ upstreamPos = Len(upstreamText)
  /\ relayPc' = "closed"
  /\ closeThrew' = ~CanCloseOrEnqueue
  /\ UNCHANGED <<upstreamText, upstreamPos, relayReads, linesParsed, downstream,
                 upstream, upstreamRequests, relayStatus, relayBody, downPc,
                 readsAfterCancel>>
  /\ UNCHANGED <<clientVars, fnVars>>

\* reader.read() rejects (the upstream connection broke): the catch calls
\* controller.error(error), then finally calls controller.close() on the
\* stream that has just been errored.
RelayReadThrows ==
  /\ relayPc = "streaming"
  /\ upstreamPos < Len(upstreamText)
  /\ relayPc' = "errored"
  /\ closeThrew' = TRUE
  /\ UNCHANGED <<upstreamText, upstreamPos, relayReads, linesParsed, downstream,
                 upstream, upstreamRequests, relayStatus, relayBody, downPc,
                 readsAfterCancel>>
  /\ UNCHANGED <<clientVars, fnVars>>

\* The client cancels the response or disconnects.  The underlying source
\* has no cancel callback and the upstream fetch is given no signal.
DownstreamCancel ==
  /\ relayPc = "streaming"
  /\ downPc = "open"
  /\ downPc' = "cancelled"
  /\ UNCHANGED <<upstreamText, upstreamPos, relayReads, relayPc, linesParsed,
                 downstream, upstream, upstreamRequests, relayStatus, relayBody,
                 readsAfterCancel, closeThrew>>
  /\ UNCHANGED <<clientVars, fnVars>>

\* ------------------------------------------------------------------ client
MaxSessions == 2      \* calls of sendMessageCore that get past the guard
MaxClientReads == 2   \* reads of response bodies that return data
MaxEdits == 1         \* calls of clearChat, editMessage and deleteMessage

Sessions == 1..MaxSessions
Inputs == {<<>>, <<"q">>}
EditTexts == {<<"e">>}

NoSession ==
  [ pc |-> "none",              \* "fetch" | "errBody" | "read" | "ended"
    messageText |-> <<>>,
    isRetry |-> FALSE,
    controller |-> 0,           \* the controller whose signal fetch was given
    newMessages |-> <<>>,
    closureLoading |-> FALSE,   \* loading, as closed over by the call
    closureStreaming |-> <<>>,  \* streamingContent, as closed over
    content |-> <<>>,
    stats |-> EmptyStats,
    hasReceivedContent |-> FALSE,
    deltas |-> 0,               \* content frames the read loop has taken
    outcome |-> "none",         \* "completed" | "failed" | "aborted"
    turns |-> 0 ]               \* assistant turns added for this call

\* A call that has returned keeps its outcome; its locals are gone.
Ended(s, outcome, added) ==
  [NoSession EXCEPT !.pc = "ended",
                    !.messageText = sess[s].messageText,
                    !.isRetry = sess[s].isRetry,
                    !.controller = sess[s].controller,
                    !.deltas = sess[s].deltas,
                    !.closureLoading = sess[s].closureLoading,
                    !.closureStreaming = sess[s].closureStreaming,
                    !.outcome = outcome,
                    !.turns = sess[s].turns + added]

\* suspended at an await: fetch, res.json() of an error body, reader.read()
Waiting(s) == sess[s].pc \in {"fetch", "errBody", "read"}

\* abort() has rejected the promise a call is suspended on; its continuation
\* is a microtask and runs before any other event is handled.
Aborted(s) == sess[s].controller \in aborted

AbortPending == \E s \in Sessions : Waiting(s) /\ Aborted(s)

Snapshot(m, l, sc, lf, i) ==
  [ messages |-> m, loading |-> l, streamingContent |-> sc,
    lastFailedMessage |-> lf, input |-> i ]

\* React renders at the end of an event handler that has set state.
Flush ==
  rendered' = Snapshot(messages', loading', streamingContent',
                       lastFailedMessage', input')

\* the state and the refs of the hook when it mounts
ClientStateInit ==
  /\ messages = <<>>
  /\ loading = FALSE
  /\ streamingContent = <<>>
  /\ currentStats = None
  /\ lastFailedMessage = None
  /\ input = <<>>
  /\ rendered = Snapshot(<<>>, FALSE, <<>>, None, <<>>)
  /\ abortControllerRef = 0
  /\ aborted = {}
  /\ streamingTimeoutRef = 0
  /\ timers = {}
  /\ retryCountRef = 0
  /\ sess = [s \in Sessions |-> NoSession]
  /\ nsess = 0
  /\ edits = 0
  /\ nreads = 0
  /\ lastNoop = "none"
  /\ toasts = {}

\* the hook mounted over an empty localStorage
ClientInit == ClientStateInit /\ stored = None

\* ChatStorage.save as the client sees it: the conversations of this model
\* are far below MAX_STORAGE_SIZE, the blob is written and save returns true.
SaveTo(msgs) == Some(msgs)

\* one controller made once and used by every call
SharedController(s) == 1

\* new AbortController(): a controller of its own for every call
NewController(s) == s

\* setInput
SetInput(v) ==
  /\ ~AbortPending
  /\ UNCHANGED <<relayVars, fnVars>>
  /\ v # input
  /\ input' = v
  /\ UNCHANGED <<messages, loading, streamingContent, currentStats,
                 lastFailedMessage>>
  /\ Flush
  /\ UNCHANGED <<impl, abortControllerRef, aborted, streamingTimeoutRef, timers,
                 retryCountRef, sess, nsess, edits, nreads, lastNoop, stored,
                 toasts>>

\* the guard without its loading test
RefusesEmptyOnly(text) == Trim(text) = <<>>

\* if (!messageText.trim() || loading) return
Refuses(text) == Trim(text) = <<>> \/ rendered.loading

\* sendMessageCore up to its first await (sendMessage of Home for "page");
\* t0 and rc are the toasts and the retry counter as the caller left them.
SendMessageCore(text, isRetry, isConnected, t0, rc) ==
  IF Refuses(text) THEN
    /\ toasts' = t0
    /\ retryCountRef' = rc
    /\ lastNoop' = (IF \E s \in Sessions : Waiting(s) THEN "send" ELSE lastNoop)
    /\ UNCHANGED <<reactVars, abortControllerRef, aborted, streamingTimeoutRef,
                   timers, sess, nsess, edits, nreads, stored, rendered>>
  ELSE IF ~isConnected THEN
    /\ toasts' = AddToast(t0, Toast("error",
                                    "Cannot send message: Ollama is not connected"))
    /\ retryCountRef' = rc
    /\ UNCHANGED <<reactVars, abortControllerRef, aborted, streamingTimeoutRef,
                   timers, sess, nsess, edits, nreads, lastNoop, stored>>
    /\ Flush
  ELSE
    /\ nsess < MaxSessions
    /\ LET s == nsess + 1
           newMessages == IF isRetry THEN rendered.messages
                          ELSE Append(rendered.messages, UserTurn(text))
       IN /\ messages' = (IF isRetry THEN messages ELSE newMessages)
          /\ input' = (IF isRetry THEN input ELSE <<>>)
          /\ sess' = [sess EXCEPT ![s] =
                        [NoSession EXCEPT !.pc = "fetch",
                                          !.messageText = text,
                                          !.isRetry = isRetry,
                                          !.controller = NewController(s),
                                          !.newMessages = newMessages,
                                          !.closureLoading = rendered.loading,
                                          !.closureStreaming =
                                             rendered.streamingContent]]
          /\ nsess' = s
          /\ abortControllerRef' = NewController(s)
          /\ IF impl = "hook"
             THEN /\ streamingTimeoutRef' = s
                  /\ timers' = timers \cup {s}
             ELSE UNCHANGED <<streamingTimeoutRef, timers>>
    /\ loading' = TRUE
    /\ streamingContent' = <<>>
    /\ currentStats' = None
    /\ lastFailedMessage' = None
    /\ toasts' = t0
    /\ retryCountRef' = rc
    /\ lastNoop' = "none"
    /\ UNCHANGED <<aborted, edits, nreads, stored>>
    /\ Flush

\* sendMessage: sendMessageCore(input)
SendMessage(isConnected) ==
  /\ ~AbortPending
  /\ UNCHANGED <<relayVars, fnVars>>
  /\ SendMessageCore(rendered.input, FALSE, isConnected, toasts, retryCountRef)
  /\ UNCHANGED impl

\* the guard without its test of the counter
RetryReturnsUnfailedOnly == rendered.lastFailedMessage = None

\* if (!lastFailedMessage || retryCountRef.current >= maxRetries) return
RetryReturns ==
  rendered.lastFailedMessage = None \/ retryCountRef >= maxRetries

\* retryLastMessage
RetryLastMessage(isConnected) ==
  /\ ~AbortPending
  /\ UNCHANGED <<relayVars, fnVars>>
  /\ impl = "hook"
  /\ IF RetryReturns
     THEN UNCHANGED <<reactVars, abortControllerRef, aborted,
                      streamingTimeoutRef, timers, retryCountRef, sess, nsess,
                      edits, nreads, lastNoop, stored, toasts, rendered>>
     ELSE SendMessageCore(rendered.lastFailedMessage[1], TRUE, isConnected,
                          AddToast(toasts, Toast("info", "Retrying message")),
                          retryCountRef + 1)
  /\ UNCHANGED impl

\* content of the turn cancelGeneration adds
CancelledContent(sc) == IF impl = "hook" THEN Append(sc, CancelSuffix) ELSE sc

\* cancelGeneration without the test of abortControllerRef.current
CancelAlwaysApplies == TRUE

\* if (abortControllerRef.current)
CancelApplies == abortControllerRef # 0

\* the calls that were given the signal of controller c
Owners(c) == {s \in Sessions : sess[s].pc # "none" /\ sess[s].controller = c}

\* cancelGeneration
CancelGeneration ==
  /\ ~AbortPending
  /\ UNCHANGED <<relayVars, fnVars>>
  /\ IF CancelApplies THEN
       /\ aborted' = aborted \cup {abortControllerRef}
       /\ loading' = FALSE
       /\ IF rendered.streamingContent # <<>> THEN
            LET completeMessages ==
                  Append(rendered.messages,
                         AssistantTurn(CancelledContent(rendered.streamingContent),
                                       None))
            IN /\ messages' = completeMessages
               /\ streamingContent' = <<>>
               /\ currentStats' = None
               /\ stored' = SaveTo(completeMessages)
               /\ sess' = [s \in Sessions |->
                            IF s \in Owners(abortControllerRef)
                            THEN [sess[s] EXCEPT !.turns = @ + 1] ELSE sess[s]]
          ELSE UNCHANGED <<messages, streamingContent, currentStats, stored, sess>>
       /\ toasts' = (IF impl = "hook"
                     THEN AddToast(toasts, Toast("info", "Generation cancelled"))
                     ELSE toasts)
       /\ UNCHANGED <<lastFailedMessage, input, lastNoop>>
       /\ Flush
     ELSE /\ lastNoop' = "cancel"
          /\ UNCHANGED <<reactVars, aborted, stored, sess, toasts, rendered>>
  /\ UNCHANGED <<impl, abortControllerRef, streamingTimeoutRef, timers,
                 retryCountRef, nsess, edits, nreads>>

\* clearChat
ClearChat ==
  /\ ~AbortPending
  /\ UNCHANGED <<relayVars, fnVars>>
  /\ edits < MaxEdits
  /\ edits' = edits + 1
  /\ messages' = <<>>
  /\ streamingContent' = <<>>
  /\ currentStats' = None
  /\ IF impl = "hook"
     THEN lastFailedMessage' = None /\ retryCountRef' = 0
     ELSE UNCHANGED <<lastFailedMessage, retryCountRef>>
  /\ stored' = None
  /\ toasts' = AddToast(toasts, Toast("success", "Chat cleared"))
  /\ UNCHANGED <<loading, input>>
  /\ Flush
  /\ UNCHANGED <<impl, abortControllerRef, aborted, streamingTimeoutRef, timers,
                 sess, nsess, nreads, lastNoop>>

\* editMessage(index, newContent); an index out of range is not drawn, the
\* call returns at once for it.
EditMessage(index, newContent) ==
  /\ ~AbortPending
  /\ UNCHANGED <<relayVars, fnVars>>
  /\ impl = "hook"
  /\ edits < MaxEdits
  /\ index \in 1..Len(rendered.messages)
  /\ edits' = edits + 1
  /\ LET updatedMessages ==
           [rendered.messages EXCEPT ![index].content = newContent]
     IN /\ messages' = updatedMessages
        /\ stored' = SaveTo(updatedMessages)
  /\ toasts' = AddToast(toasts, Toast("success", "Message edited"))
  /\ UNCHANGED <<loading, streamingContent, currentStats, lastFailedMessage,
                 input>>
  /\ Flush
  /\ UNCHANGED <<impl, abortControllerRef, aborted, streamingTimeoutRef, timers,
                 retryCountRef, sess, nsess, nreads, lastNoop>>

\* messages.filter((_, i) => i !== index)
RemoveAt(msgs, index) ==
  SubSeq(msgs, 1, index - 1) \o SubSeq(msgs, index + 1, Len(msgs))

\* deleteMessage(index)
DeleteMessage(index) ==
  /\ ~AbortPending
  /\ UNCHANGED <<relayVars, fnVars>>
  /\ impl = "hook"
  /\ edits < MaxEdits
  /\ index \in 1..Len(rendered.messages)
  /\ edits' = edits + 1
  /\ LET updatedMessages == RemoveAt(rendered.messages, index)
     IN /\ messages' = updatedMessages
        /\ stored' = SaveTo(updatedMessages)
  /\ toasts' = AddToast(toasts, Toast("success", "Message deleted"))
  /\ UNCHANGED <<loading, streamingContent, currentStats, lastFailedMessage,
                 input>>
  /\ Flush
  /\ UNCHANGED <<impl, abortControllerRef, aborted, streamingTimeoutRef, timers,
                 retryCountRef, sess, nsess, nreads, lastNoop>>

\* A render scheduled by state updates made outside an event handler.
Render ==
  /\ ~AbortPending
  /\ rendered # Snapshot(messages, loading, streamingContent,
                         lastFailedMessage, input)
  /\ rendered' = Snapshot(messages, loading, streamingContent,
                          lastFailedMessage, input)
  /\ UNCHANGED <<relayVars, fnVars, impl, reactVars, abortControllerRef, aborted,
                 streamingTimeoutRef, timers, retryCountRef, sess, nsess, edits,
                 nreads, lastNoop, stored, toasts>>

\* The callback of setTimeout(..., 10000): it reads loading and
\* streamingContent of the call that set it.
StreamingTimeout(s) ==
  /\ ~AbortPending
  /\ s \in timers
  /\ timers' = timers \ {s}
  /\ toasts' = (IF sess[s].closureLoading /\ sess[s].closureStreaming = <<>>
                THEN AddToast(toasts,
                       Toast("warning",
                             "Response is taking longer than expected..."))
                ELSE toasts)
  /\ UNCHANGED <<relayVars, fnVars, impl, reactVars, rendered, abortControllerRef,
                 aborted, streamingTimeoutRef, retryCountRef, sess, nsess, edits,
                 nreads, lastNoop, stored>>

\* the finally block without setLoading(false)
FinallyLeavesLoading ==
  /\ loading' = loading
  /\ abortControllerRef' = 0
  /\ IF impl = "hook" /\ streamingTimeoutRef # 0
     THEN /\ timers' = timers \ {streamingTimeoutRef}
          /\ streamingTimeoutRef' = 0
     ELSE UNCHANGED <<timers, streamingTimeoutRef>>

\* finally { setLoading(false); abortControllerRef.current = null; ... }
Finally ==
  /\ loading' = FALSE
  /\ abortControllerRef' = 0
  /\ IF impl = "hook" /\ streamingTimeoutRef # 0
     THEN /\ timers' = timers \ {streamingTimeoutRef}
          /\ streamingTimeoutRef' = 0
     ELSE UNCHANGED <<timers, streamingTimeoutRef>>

ErrorTurn(msg) ==
  AssistantTurn(
    <<"Error: ", ParseOllamaError(msg)>>
      \o (IF impl = "hook" /\ retryCountRef < maxRetries
          THEN <<RetryHint>> ELSE <<>>),
    None)

\* catch (err) for an error that is not an AbortError, then finally
Fail(s, msg) ==
  /\ lastFailedMessage' =
       (IF impl = "hook" THEN Some(sess[s].messageText) ELSE lastFailedMessage)
  /\ messages' = Append(messages, ErrorTurn(msg))
  /\ toasts' = AddToast(toasts, Toast("error", ParseOllamaError(msg)))
  /\ sess' = [sess EXCEPT ![s] = Ended(s, "failed", 1)]
  /\ Finally
  /\ UNCHANGED <<streamingContent, currentStats, input, rendered, aborted,
                 retryCountRef, nsess, edits, nreads, lastNoop, stored, impl>>

\* fetch resolves with a 2xx response
FetchOk(s) ==
  /\ ~AbortPending
  /\ sess[s].pc = "fetch"
  /\ sess' = [sess EXCEPT ![s].pc = "read"]
  /\ UNCHANGED <<relayVars, fnVars, impl, reactVars, rendered, abortControllerRef,
                 aborted, streamingTimeoutRef, timers, retryCountRef, nsess,
                 edits, nreads, lastNoop, stored, toasts>>

\* fetch resolves with !res.ok: await res.json()
FetchNotOk(s) ==
  /\ ~AbortPending
  /\ sess[s].pc = "fetch"
  /\ sess' = [sess EXCEPT ![s].pc = "errBody"]
  /\ UNCHANGED <<relayVars, fnVars, impl, reactVars, rendered, abortControllerRef,
                 aborted, streamingTimeoutRef, timers, retryCountRef, nsess,
                 edits, nreads, lastNoop, stored, toasts>>

\* errorData.error || `HTTP ${res.status}: ${res.statusText}`
HttpError == IF impl = "hook" THEN ErrHttp ELSE ErrPageHttp

\* res.json() settles with the relay's body {error: "Failed to ..."}
ErrorBodyRead(s) ==
  /\ ~AbortPending
  /\ sess[s].pc = "errBody"
  /\ Fail(s, ErrRelay)
  /\ UNCHANGED <<relayVars, fnVars>>

\* fetch rejects: the relay cannot be reached
FetchRejects(s) ==
  /\ ~AbortPending
  /\ sess[s].pc = "fetch"
  /\ Fail(s, ErrFetch)
  /\ UNCHANGED <<relayVars, fnVars>>

\* reader.read() returns a chunk: the body of the while loop
ReadChunk(s, chunk) ==
  /\ ~AbortPending
  /\ sess[s].pc = "read"
  /\ nreads < MaxClientReads
  /\ nreads' = nreads + 1
  /\ LET r == ProcessLines(ChunkLines(chunk),
                [ content |-> sess[s].content,
                  stats |-> sess[s].stats,
                  hasReceivedContent |-> sess[s].hasReceivedContent,
                  streamingContent |-> streamingContent,
                  currentStats |-> currentStats,
                  deltas |-> sess[s].deltas ])
     IN /\ sess' = [sess EXCEPT ![s].content = r.content,
                                ![s].stats = r.stats,
                                ![s].hasReceivedContent = r.hasReceivedContent,
                                ![s].deltas = r.deltas]
        /\ streamingContent' = r.streamingContent
        /\ currentStats' = r.currentStats
        /\ IF impl = "hook" /\ r.deltas > sess[s].deltas
              /\ streamingTimeoutRef # 0
           THEN /\ timers' = timers \ {streamingTimeoutRef}
                /\ streamingTimeoutRef' = 0
           ELSE UNCHANGED <<timers, streamingTimeoutRef>>
  /\ UNCHANGED <<relayVars, fnVars, impl, messages, loading, lastFailedMessage, input,
                 rendered, abortControllerRef, aborted, retryCountRef, nsess,
                 edits, lastNoop, stored, toasts>>

\* if (!hasReceivedContent) throw ...: only useChat has the check
EmptyCompletion(s) == impl = "hook" /\ ~sess[s].hasReceivedContent

\* the turn built from the state variable the call closed over
CompletedTurnFromState(s) ==
  AssistantTurn(sess[s].closureStreaming, Some(sess[s].stats))

\* { role: "assistant", content, model: selectedModel, stats }
CompletedTurn(s) == AssistantTurn(sess[s].content, Some(sess[s].stats))

\* the code after the while loop, then finally
Complete(s) ==
  LET completeMessages == Append(sess[s].newMessages, CompletedTurn(s))
  IN /\ messages' = completeMessages
     /\ streamingContent' = <<>>
     /\ currentStats' = None
     /\ retryCountRef' = (IF impl = "hook" THEN 0 ELSE retryCountRef)
     /\ stored' = SaveTo(completeMessages)
     /\ toasts' = toasts
     /\ sess' = [sess EXCEPT ![s] = Ended(s, "completed", 1)]
     /\ Finally
     /\ UNCHANGED <<lastFailedMessage, input, rendered, aborted, nsess, edits,
                    nreads, lastNoop, impl>>

\* reader.read() returns done
ReadDone(s) ==
  /\ ~AbortPending
  /\ sess[s].pc = "read"
  /\ IF EmptyCompletion(s) THEN Fail(s, ErrNoContent) ELSE Complete(s)
  /\ UNCHANGED <<relayVars, fnVars>>

\* reader.read() rejects: the connection broke, or the relay errored the
\* stream
ReadRejects(s) ==
  /\ ~AbortPending
  /\ sess[s].pc = "read"
  /\ Fail(s, ErrRead)
  /\ UNCHANGED <<relayVars, fnVars>>

\* the catch block without its test for AbortError
AbortTreatedAsError(s) == Fail(s, "AbortError")

\* catch (err) for an AbortError, then finally
AbortReturn(s) ==
  /\ toasts' = (IF impl = "page"
                THEN AddToast(toasts, Toast("info", "Generation cancelled"))
                ELSE toasts)
  /\ sess' = [sess EXCEPT ![s] = Ended(s, "aborted", 0)]
  /\ Finally
  /\ UNCHANGED <<messages, streamingContent, currentStats, lastFailedMessage,
                 input, rendered, aborted, retryCountRef, nsess, edits,
                 nreads, lastNoop, stored, impl>>

\* The promise a cancelled call is suspended on rejects with an AbortError.
\* res.json().catch(() => ({})) swallows it, and the HTTP error is thrown.
AbortObserved(s) ==
  /\ Waiting(s)
  /\ Aborted(s)
  /\ IF sess[s].pc = "errBody" THEN Fail(s, HttpError) ELSE AbortReturn(s)
  /\ UNCHANGED <<relayVars, fnVars>>

RelayIdle ==
  /\ upstreamText = <<>>
  /\ upstreamPos = 0
  /\ relayReads = 0
  /\ relayPc = "closed"
  /\ linesParsed = <<>>
  /\ downstream = <<>>
  /\ upstream = "ok"
  /\ upstreamRequests = 0
  /\ relayStatus = 0
  /\ relayBody = None
  /\ downPc = "open"
  /\ readsAfterCancel = 0
  /\ closeThrew = FALSE

\* what the browser and the network can do to either component
Stream ==
  \/ Render
  \/ \E s \in Sessions : FetchOk(s)
  \/ \E s \in Sessions : FetchNotOk(s)
  \/ \E s \in Sessions : FetchRejects(s)
  \/ \E s \in Sessions : ErrorBodyRead(s)
  \/ \E s \in Sessions, chunk \in ClientChunks : ReadChunk(s, chunk)
  \/ \E s \in Sessions : ReadDone(s)
  \/ \E s \in Sessions : ReadRejects(s)
  \/ \E s \in Sessions : AbortObserved(s)

\* useChat
\* no function is being applied on its own
FnIdle == fnIn = <<>> /\ fnOut = None

Init == ClientInit /\ impl = "hook" /\ RelayIdle /\ FnIdle

Next ==
  \/ \E v \in Inputs : SetInput(v)
  \/ \E c \in BOOLEAN : SendMessage(c)
  \/ \E c \in BOOLEAN : RetryLastMessage(c)
  \/ CancelGeneration
  \/ \E s \in Sessions : StreamingTimeout(s)
  \/ Stream

Spec == Init /\ [][Next]_vars

\* The promise a call awaits settles: fetch resolves or rejects, the body is
\* read to its end or the read fails, an abort rejects what is pending.
Settle ==
  \E s \in Sessions :
    \/ FetchOk(s) \/ FetchNotOk(s) \/ FetchRejects(s) \/ ErrorBodyRead(s)
    \/ ReadDone(s) \/ ReadRejects(s) \/ AbortObserved(s)

\* useChat, where every request ends and React renders the state it was given
SpecFair == Spec /\ WF_vars(Settle) /\ WF_vars(Render)

\* useChat connected to Ollama, with the conversation edited while a
\* generation goes on
NextEdit ==
  \/ \E v \in Inputs : SetInput(v)
  \/ SendMessage(TRUE)
  \/ CancelGeneration
  \/ Stream
  \/ ClearChat
  \/ \E i \in 1..(2 * MaxSessions), t \in EditTexts : EditMessage(i, t)
  \/ \E i \in 1..(2 * MaxSessions) : DeleteMessage(i)

SpecEdit == Init /\ [][NextEdit]_vars

\* Home
InitPage == ClientInit /\ impl = "page" /\ RelayIdle /\ FnIdle

NextPage ==
  \/ \E v \in Inputs : SetInput(v)
  \/ \E c \in BOOLEAN : SendMessage(c)
  \/ CancelGeneration
  \/ Stream

SpecPage == InitPage /\ [][NextPage]_vars

\* ------------------------------------------------------- relay, on its own
ClientIdle == ClientInit /\ impl = "hook"

\* the body of an upstream answer with a non-success status
UpstreamErrorText == <<"{", "}">>

RelayInit ==
  /\ \/ upstream = "ok" /\ upstreamText \in UpstreamTexts
     \/ upstream = "notOk" /\ upstreamText = UpstreamErrorText
     \/ upstream = "rejects" /\ upstreamText = <<>>
  /\ RelayStart
  /\ ClientIdle
  /\ FnIdle

RelayNext ==
  \/ RelayFetch
  \/ \E n \in 1..Len(upstreamText) : RelayRead(n)
  \/ RelayDone
  \/ RelayReadThrows
  \/ DownstreamCancel

SpecRelay == RelayInit /\ [][RelayNext]_vars

\* ------------------------------------------- the stats object, on its own
\* a counter of data.stats: missing, zero or a number
StatsCounters == {None, Some(0), Some(3)}
StatsDurations == {None, Some(0), Some(20)}

StatsInputs ==
  [ eval_count : StatsCounters, eval_duration : StatsDurations,
    prompt_eval_count : StatsCounters, prompt_eval_duration : StatsDurations,
    total_duration : StatsDurations ]

\* if (data.stats) { stats = {...} } for one stats frame
ApplyDeriveStats ==
  /\ fnOut = None
  /\ fnOut' = Some(DeriveStats(fnIn))
  /\ UNCHANGED <<fnIn, relayVars, clientVars>>

InitStats == fnIn \in StatsInputs /\ fnOut = None /\ ClientIdle /\ RelayIdle

NextStats == ApplyDeriveStats

SpecStats == InitStats /\ [][NextStats]_vars

\* ------------------------------------ the two read loops, on their own
MaxChunkLines == 2   \* lines in one chunk
MaxChunks == 2       \* chunks the loops are given

\* well-formed for the relay, for the client, for both and for neither
LoopLines ==
  { <<"{", "a", "}">>, <<"{", "b", "D", "}">>, <<"{", "S", "}">>,
    <<"x">>, <<"{", "b">> }

LoopChunks ==
  { Join(ls) : ls \in UNION { [1..n -> LoopLines] : n \in 1..MaxChunkLines } }

LoopInputs == UNION { [1..n -> LoopChunks] : n \in 1..MaxChunks }

\* the locals of the client read loop before the first read
LoopStart ==
  [ content |-> <<>>, stats |-> EmptyStats, hasReceivedContent |-> FALSE,
    streamingContent |-> <<>>, currentStats |-> None, deltas |-> 0 ]

\* one turn of the relay's while loop on the next chunk
RelayLoopStep ==
  /\ fnOut.rk < Len(fnIn)
  /\ fnOut' = [fnOut EXCEPT
                 !.rk = @ + 1,
                 !.frames = @ \o FramesOf(ChunkLines(fnIn[fnOut.rk + 1]))]
  /\ UNCHANGED <<fnIn, relayVars, clientVars>>

\* one turn of the client's while loop on the next chunk
ClientLoopStep ==
  /\ fnOut.ck < Len(fnIn)
  /\ fnOut' = [fnOut EXCEPT
                 !.ck = @ + 1,
                 !.acc = ProcessLines(ChunkLines(fnIn[fnOut.ck + 1]), @)]
  /\ UNCHANGED <<fnIn, relayVars, clientVars>>

InitLoops ==
  /\ fnIn \in LoopInputs
  /\ fnOut = [rk |-> 0, frames |-> <<>>, ck |-> 0, acc |-> LoopStart]
  /\ ClientIdle
  /\ RelayIdle

NextLoops == RelayLoopStep \/ ClientLoopStep

SpecLoops == InitLoops /\ [][NextLoops]_vars

\* ------------------------------- the upstream message list, on its own
MaxTurns == 3   \* turns of the conversation POST is given

SystemTurn(p) == [role |-> "system", content |-> p, stats |-> None]

PromptTurns ==
  { UserTurn(<<"q">>), AssistantTurn(<<"a">>, None), SystemTurn(<<"s">>) }

Conversations == UNION { [1..n -> PromptTurns] : n \in 0..MaxTurns }

\* systemPrompt of the request body: missing, "" (the entry "default" of
\* SYSTEM_PROMPTS) or a text
SystemPrompts == {None, Some(<<>>), Some(<<"p">>)}

\* the system turn put in front of every conversation
AllMessagesAlways(systemPrompt, msgs) ==
  <<SystemTurn(IF systemPrompt = None THEN <<>> ELSE systemPrompt[1])>>
    \o msgs

\* systemPrompt ? [{ role: "system", content: systemPrompt }, ...messages]
\*              : messages
AllMessages(systemPrompt, msgs) ==
  IF systemPrompt # None /\ systemPrompt[1] # <<>>
  THEN <<SystemTurn(systemPrompt[1])>> \o msgs
  ELSE msgs

\* POST up to its fetch: the list sent upstream, and the list of the
\* request body, which the spread leaves as it was
ApplyAllMessages ==
  /\ fnOut = None
  /\ fnOut' = Some([ sent |-> AllMessages(fnIn.systemPrompt, fnIn.messages),
                     messages |-> fnIn.messages ])
  /\ UNCHANGED <<fnIn, relayVars, clientVars>>

InitPrompt ==
  /\ fnIn \in [systemPrompt : SystemPrompts, messages : Conversations]
  /\ fnOut = None
  /\ ClientIdle
  /\ RelayIdle

NextPrompt == ApplyAllMessages

SpecPrompt == InitPrompt /\ [][NextPrompt]_vars

\* --------------------------------------------------- GET /api/models
MaxModels == 4   \* models the upstream lists

ModelNames == {"m1", "m2", "m3"}

ModelLists == UNION { [1..n -> ModelNames] : n \in 0..MaxModels }

\* a JSON body: the model list of /api/tags, or the error of a failure
ModelsObject(list) == [models |-> Some(list), error |-> None]
ErrorObject == [models |-> None, error |-> Some("e")]

\* What the upstream does with GET /api/tags: the fetch rejects, or it
\* resolves with a status and a body; json is FALSE for a body that
\* response.json() cannot parse.
TagsAnswers ==
  { [outcome |-> "rejects", json |-> FALSE, data |-> ErrorObject] }
  \cup { [outcome |-> "ok", json |-> TRUE, data |-> ModelsObject(l)] :
           l \in ModelLists }
  \cup { [outcome |-> "ok", json |-> FALSE, data |-> ErrorObject] }
  \cup { [outcome |-> "notOk", json |-> j, data |-> ErrorObject] :
           j \in BOOLEAN }

\* GET: fetch, response.json(), NextResponse.json(data); the catch answers
\* { models: [] } with status 500
GetModels ==
  /\ fnOut = None
  /\ fnOut' = Some(IF fnIn.outcome = "rejects" \/ ~fnIn.json
                   THEN [status |-> 500, body |-> ModelsObject(<<>>)]
                   ELSE [status |-> 200, body |-> fnIn.data])
  /\ UNCHANGED <<fnIn, relayVars, clientVars>>

InitModels == fnIn \in TagsAnswers /\ fnOut = None /\ ClientIdle /\ RelayIdle

NextModels == GetModels

SpecModels == InitModels /\ [][NextModels]_vars

\* ------------------------------------------------ ChatStorage, on its own
MaxStoredHead == 1   \* turns in front of the recent ones

StoredTurns ==
  { UserTurn(<<"q">>), AssistantTurn(<<"a">>, Some(DeriveStats(RawStats("T")))),
    UserTurn(<<"B">>), AssistantTurn(<<"H">>, None) }

\* n recent short turns, user and assistant in turn
Pad(n) ==
  [ i \in 1..n |-> IF i % 2 = 1 THEN UserTurn(<<"q">>)
                   ELSE AssistantTurn(<<"a">>, Some(EmptyStats)) ]

StoredConversations ==
  { h \o Pad(n) :
      h \in UNION { [1..k -> StoredTurns] : k \in 0..MaxStoredHead },
      n \in {0, 10} }

StoredModels == {"m1", "m2"}

\* the storage a call finds: the room the browser leaves for the item, or
\* a storage that cannot be written
StorageConditions ==
  { [quota |-> q, broken |-> FALSE] : q \in {0, 4, 100} }
  \cup { [quota |-> 0, broken |-> TRUE] }

\* What localStorage can hold when the page opens: nothing, the blob of an
\* earlier session, or a text this version did not write.
InitialItems ==
  { None,
    Some(Text("empty", None, FALSE, <<>>, None)),
    Some(Text("garbage", None, FALSE, <<>>, None)),
    Some(Text("null", None, FALSE, <<>>, None)),
    Some(Text("object", Some(0), TRUE, <<>>, Some("m1"))),
    Some(Text("object", None, TRUE, <<>>, Some("m1"))),
    Some(Text("object", Some(STORAGE_VERSION), FALSE, <<>>, Some("m1"))),
    Some(Serialized(<<UserTurn(<<"q">>)>>, "m2")) }

NoCall == [op |-> "none", messages |-> <<>>, model |-> "m1"]
NoReturn == [ok |-> FALSE, write |-> 0, loaded |-> None]

\* ChatStorage.save(messages, model)
StorageSave(msgs, model, quota, broken) ==
  LET r == Save(stored, msgs, model, quota, broken)
  IN /\ stored' = r.item
     /\ fnIn' = [op |-> "save", messages |-> msgs, model |-> model]
     /\ fnOut' = [ok |-> r.ret, write |-> r.write, loaded |-> None]
     /\ UNCHANGED <<relayVars, impl, reactVars, rendered, abortControllerRef,
                    aborted, streamingTimeoutRef, timers, retryCountRef, sess,
                    nsess, edits, nreads, lastNoop, toasts>>

\* ChatStorage.load()
StorageLoad ==
  LET r == Load(stored)
  IN /\ stored' = r.item
     /\ fnIn' = [NoCall EXCEPT !.op = "load"]
     /\ fnOut' = [NoReturn EXCEPT !.loaded = r.ret]
     /\ UNCHANGED <<relayVars, impl, reactVars, rendered, abortControllerRef,
                    aborted, streamingTimeoutRef, timers, retryCountRef, sess,
                    nsess, edits, nreads, lastNoop, toasts>>

\* ChatStorage.clear()
StorageClear ==
  /\ stored' = None
  /\ fnIn' = [NoCall EXCEPT !.op = "clear"]
  /\ fnOut' = NoReturn
  /\ UNCHANGED <<relayVars, impl, reactVars, rendered, abortControllerRef,
                 aborted, streamingTimeoutRef, timers, retryCountRef, sess,
                 nsess, edits, nreads, lastNoop, toasts>>

InitStorage ==
  /\ stored \in InitialItems
  /\ fnIn = NoCall
  /\ fnOut = NoReturn
  /\ ClientStateInit
  /\ impl = "hook"
  /\ RelayIdle

NextStorage ==
  \/ \E msgs \in StoredConversations, model \in StoredModels,
        c \in StorageConditions :
          StorageSave(msgs, model, c.quota, c.broken)
  \/ StorageLoad
  \/ StorageClear

SpecStorage == InitStorage /\ [][NextStorage]_vars

\* ------------------------------------------------------------------ claims
Last(seq) == seq[Len(seq)]

InFlight == {s \in Sessions : Waiting(s)}

\* C1: the lines the relay's read loop parses are the non-empty lines of the
\* unbroken upstream text, however the text is cut into reads.
C1_FrameReassembly ==
  relayPc = "closed" => linesParsed = ChunkLines(upstreamText)

\* C2: once cancelGeneration has aborted a call, the conversation ends with
\* an assistant turn whose content is the concatenation of the deltas the
\* read loop of that call has received.
C2_CancelKeepsReceivedDeltas ==
  \A s \in Sessions :
    (Waiting(s) /\ Aborted(s)) =>
      /\ messages # <<>>
      /\ Last(messages).role = "assistant"
      /\ Last(messages).content = sess[s].content

\* C3: no assistant turn with empty content is in the conversation, and a
\* call whose stream closed without content has not completed.
C3_EmptyCompletionIsError ==
  \A i \in 1..Len(messages) :
    messages[i].role = "assistant" => messages[i].content # <<>>

StatsFrames(frames) == {i \in 1..Len(frames) : frames[i].stats}

\* C4: when the upstream body holds a done:true record and the relay has
\* closed the stream, exactly one frame carries stats and it is the last one.
C4_OneTerminalStatsFrame ==
  (relayPc = "closed" /\ ReachesDone(upstreamText)) =>
    /\ Cardinality(StatsFrames(downstream)) = 1
    /\ Last(downstream).stats

UserTurns(msgs) == Cardinality({i \in 1..Len(msgs) : msgs[i].role = "user"})

\* C5: at most one call is waiting at any time and the controller in
\* abortControllerRef is the one of that call; a step taken while a call is
\* waiting starts no call, adds no user turn and puts no other controller
\* in abortControllerRef.
C5_SingleGenerationInFlight ==
  /\ [](Cardinality(InFlight) <= 1)
  /\ [](\A s \in InFlight : abortControllerRef = sess[s].controller)
  /\ [][InFlight # {} =>
          /\ nsess' = nsess
          /\ UserTurns(messages') = UserTurns(messages)
          /\ abortControllerRef' \in {abortControllerRef, 0}]_vars

\* a send with a non-empty text was made while a call was waiting
C5_Witness ==
  /\ lastNoop = "send"
  /\ InFlight # {}
  /\ rendered.input # <<>>

\* C6: a call adds at most one assistant turn, and once it has added it no
\* later step of that call changes the conversation.
C6_OneTurnPerSend ==
  /\ [](\A s \in Sessions : sess[s].turns <= 1)
  /\ [][\A s \in Sessions :
          (sess[s].turns = 1 /\ sess'[s] # sess[s]) => messages' = messages]_vars

\* a cancelled call whose turn was added by cancelGeneration has returned
C6_Witness ==
  \E s \in Sessions :
    /\ sess[s].pc = "ended"
    /\ sess[s].outcome = "aborted"
    /\ sess[s].turns = 1

\* C7: a cancelled call takes no further frame; a call is given a controller
\* that is not aborted; the step in which a call returns leaves loading and
\* abortControllerRef alone while another call is waiting.
C7_TokenBoundToOneSession ==
  /\ [][\A s \in Sessions :
          (Waiting(s) /\ Aborted(s)) =>
            /\ sess'[s].deltas = sess[s].deltas
            /\ streamingContent' = streamingContent
            /\ currentStats' = currentStats]_vars
  /\ [][nsess' # nsess =>
          /\ abortControllerRef' = sess'[nsess'].controller
          /\ abortControllerRef' \notin aborted']_vars
  /\ [][\A s, t \in Sessions :
          (s # t /\ Waiting(t) /\ sess[s].pc # "ended" /\ sess'[s].pc = "ended")
            => (loading' = loading /\ abortControllerRef' = abortControllerRef)]_vars

\* a call is waiting, unaborted, after an earlier one was cancelled
C7_Witness ==
  \E s, t \in Sessions :
    /\ s < t
    /\ sess[s].pc = "ended"
    /\ Aborted(s)
    /\ Waiting(t)
    /\ ~Aborted(t)
    /\ loading

\* C8: a call that was cancelled does not end in the failure path.
C8_CancelIsNotFailure ==
  \A s \in Sessions : Aborted(s) => sess[s].outcome # "failed"

\* C9: cancelGeneration, called while no call is waiting, changes nothing.
C9_IdleCancelIsNoop ==
  [][(InFlight = {} /\ CancelGeneration) =>
        UNCHANGED <<messages, loading, streamingContent, currentStats,
                    lastFailedMessage, rendered, abortControllerRef, aborted,
                    stored, toasts>>]_vars

\* cancelGeneration was called after a generation, while none was waiting
C9_Witness ==
  /\ lastNoop = "cancel"
  /\ InFlight = {}
  /\ messages # <<>>

\* the turn of the message this call was made for
SentTurnIn(s, msgs) ==
  \E i \in 1..Len(msgs) : msgs[i] = UserTurn(sess[s].messageText)

\* C10: the step in which a stream that brought content closes makes the
\* conversation the one that was sent plus one assistant turn with the
\* accumulated content and the stats of the last stats frame, and clears
\* streamingContent and currentStats.
C10_CompletionAppendsTurn ==
  [][\A s \in Sessions :
       (sess[s].pc = "read" /\ sess'[s].outcome = "completed") =>
         /\ sess[s].hasReceivedContent
         /\ messages' = Append(sess[s].newMessages,
                               AssistantTurn(sess[s].content,
                                             Some(sess[s].stats)))
         /\ SentTurnIn(s, sess[s].newMessages)
         /\ sess'[s].turns = 1
         /\ streamingContent' = <<>>
         /\ currentStats' = None]_vars

\* a stream with two deltas and a stats frame has completed
C10_Witness ==
  /\ \E s \in Sessions : sess[s].outcome = "completed"
  /\ messages # <<>>
  /\ Last(messages) =
       AssistantTurn(<<"a", "b">>, Some(DeriveStats(RawStats("T"))))
  /\ streamingContent = <<>>
  /\ currentStats = None

\* part occurs in text as a run of consecutive elements
Contains(text, part) ==
  \E i \in 1..(Len(text) + 1) :
    /\ i + Len(part) - 1 <= Len(text)
    /\ SubSeq(text, i, i + Len(part) - 1) = part

\* the call s, suspended at one of the awaits in pcs and not cancelled,
\* ends in the catch block in this step
FailsFrom(s, pcs) ==
  /\ sess[s].pc \in pcs
  /\ ~Aborted(s)
  /\ sess'[s].outcome = "failed"

\* C11: when a read fails for a reason other than cancellation, the partial
\* content is removed from the live view (streamingContent is empty once the
\* failure has been handled) and an error-marker assistant turn is appended.
C11_FailureClearsLiveView ==
  [][\A s \in Sessions :
       FailsFrom(s, {"read"}) =>
         /\ streamingContent' = <<>>
         /\ Len(messages') = Len(messages) + 1
         /\ Last(messages').role = "assistant"]_vars

\* C12: when a read fails after some content has arrived, the assistant turn
\* that is appended holds the content captured before the failure together
\* with the error annotation.
C12_FailureKeepsPartialContent ==
  [][\A s \in Sessions :
       (FailsFrom(s, {"read"}) /\ sess[s].content # <<>>) =>
         /\ messages' # <<>>
         /\ Last(messages').role = "assistant"
         /\ Contains(Last(messages').content, sess[s].content)]_vars

\* C13: when the request fails before streaming starts (fetch rejects, or
\* the answer is not 2xx), an error is shown and the conversation is left as
\* it was: no assistant turn is appended.
C13_PreStreamFailureLeavesConversation ==
  [][\A s \in Sessions :
       FailsFrom(s, {"fetch", "errBody"}) =>
         /\ messages' = messages
         /\ \E t \in toasts' : t.type = "error"]_vars

\* C14: if the upstream fetch rejects or the upstream answers with a
\* non-success status, the relay replies with one JSON error body and a
\* non-2xx status and emits no frame; it never answers 2xx with a stream.
C14_PreStreamFailureIsErrorBody ==
  upstream # "ok" =>
    /\ relayStatus # 200
    /\ downstream = <<>>
    /\ relayPc \in {"request", "failed"}
    /\ relayPc = "failed" =>
         (relayStatus = 500 /\ relayBody = Some(ErrRelay) /\ upstreamRequests = 1)

C14_Witness ==
  upstream = "notOk" /\ relayPc = "failed" /\ relayStatus = 500
    /\ relayBody = Some(ErrRelay)

\* C15: once the relay streams, a client that cancels the response makes the
\* relay stop reading the upstream body; after at most the one read that was
\* under way, no further upstream record is read.
C15_CancelStopsUpstreamRead ==
  [][(downPc = "cancelled" /\ readsAfterCancel >= 1)
       => upstreamPos' = upstreamPos]_vars

\* C16: if reading the upstream body throws after streaming has begun, the
\* relay terminates the downstream stream, the termination itself raises no
\* further exception, and no second upstream request is made.
C16_MidStreamErrorEndsCleanly ==
  relayPc = "errored" => (~closeThrew /\ upstreamRequests = 1)

\* C17: each upstream line produces at most one relay frame; no line yields
\* both a content frame and a stats frame.
C17_OneFramePerLine ==
  \A i \in 1..Len(linesParsed) : Len(LineFrames(linesParsed[i])) <= 1

RECURSIVE Deltas(_)
\* the message.content of the lines that parse and have one, in order
Deltas(lines) ==
  IF lines = <<>> THEN <<>>
  ELSE (IF ParsesUpstream(Head(lines)) /\ UpstreamContent(Head(lines)) # <<>>
        THEN <<UpstreamContent(Head(lines))>> ELSE <<>>)
       \o Deltas(Tail(lines))

RECURSIVE ContentTexts(_)
\* the content of the content frames of a stream, in order
ContentTexts(frames) ==
  IF frames = <<>> THEN <<>>
  ELSE (IF Head(frames).stats THEN <<>> ELSE <<Head(frames).content>>)
       \o ContentTexts(Tail(frames))

RECURSIVE LinesOfChunks(_, _)
\* the lines the loops get from the first k chunks
LinesOfChunks(chunks, k) ==
  IF k = 0 THEN <<>>
  ELSE LinesOfChunks(chunks, k - 1) \o ChunkLines(chunks[k])

RECURSIVE Translated(_)
\* the frames of a sequence of lines that all parse
Translated(lines) ==
  IF lines = <<>> THEN <<>>
  ELSE LineFrames(Head(lines)) \o Translated(Tail(lines))

RECURSIVE Accumulated(_)
\* the content of a sequence of frames that all parse
Accumulated(lines) ==
  IF lines = <<>> THEN <<>>
  ELSE FrameContent(Head(lines)) \o Accumulated(Tail(lines))

\* C19: a line that fails JSON.parse produces no frame and does not stop
\* the loop; the relay's frames and the client's content are those of the
\* well-formed lines alone, in the same read and in later reads.
C19_MalformedLineIsSkipped ==
  /\ fnOut.frames =
       Translated(SelectSeq(LinesOfChunks(fnIn, fnOut.rk), ParsesUpstream))
  /\ fnOut.acc.content =
       Accumulated(SelectSeq(LinesOfChunks(fnIn, fnOut.ck), ParsesFrame))

C19_Witness ==
  /\ fnIn = << <<"x", NL, "{", "a", "}", NL>>,
               <<"{", "b", NL, "{", "a", "}", NL>> >>
  /\ fnOut.rk = 2
  /\ fnOut.ck = 2
  /\ fnOut.frames = <<ContentFrame(<<"a">>), ContentFrame(<<"a">>)>>
  /\ fnOut.acc.content = <<"a", "a">>

\* the throughput members of a stats object
Throughputs(st) == {st.tokensPerSecond, st.promptTokensPerSecond}

\* C20: tokensPerSecond is absent whenever eval_duration is 0 or missing,
\* promptTokensPerSecond whenever prompt_eval_duration is 0 or missing, and
\* for every combination of present, missing and zero counters no
\* throughput member is NaN or Infinity.
C20_NoDivisionArtifacts ==
  fnOut # None =>
    /\ ~Truthy(fnIn.eval_duration) => fnOut[1].tokensPerSecond = None
    /\ ~Truthy(fnIn.prompt_eval_duration)
         => fnOut[1].promptTokensPerSecond = None
    /\ \A t \in Throughputs(fnOut[1]) : t # None => t[1].k = "num"

C20_Witness ==
  /\ fnOut # None
  /\ fnIn.eval_count = Some(3)
  /\ fnIn.eval_duration = Some(0)
  /\ fnIn.prompt_eval_count = None
  /\ fnIn.prompt_eval_duration = Some(20)
  /\ fnOut[1].tokensPerSecond = None
  /\ fnOut[1].promptTokensPerSecond = None
  /\ fnOut[1].totalTokens = Some(3)

\* count / (duration / 1e9) rounded to one decimal place, in tenths: the
\* integer t with t - 1/2 <= 100 * count / duration < t + 1/2 (duration in
\* units of 10^8 ns)
NearestTenth(count, duration) ==
  CHOOSE t \in 0..(100 * count + 1) :
    /\ 2 * duration * t <= 200 * count + duration
    /\ 200 * count + duration < 2 * duration * (t + 1)

\* the throughput of a record with a count and a non-zero duration
Throughput(count, duration) ==
  Some([k |-> "num", v |-> NearestTenth(count[1], duration[1])])

\* C21: for a completion record with count c and a non-zero duration d the
\* throughput of the stats object is c / (d / 1e9) rounded to one decimal
\* place, for tokensPerSecond and for promptTokensPerSecond.
C21_ThroughputRounded ==
  fnOut # None =>
    /\ (fnIn.eval_count # None /\ Truthy(fnIn.eval_duration)) =>
         fnOut[1].tokensPerSecond =
           Throughput(fnIn.eval_count, fnIn.eval_duration)
    /\ (fnIn.prompt_eval_count # None /\ Truthy(fnIn.prompt_eval_duration)) =>
         fnOut[1].promptTokensPerSecond =
           Throughput(fnIn.prompt_eval_count, fnIn.prompt_eval_duration)

\* a system prompt is supplied: the request has one and it is not the empty
\* text that stands for no prompt
Supplied(systemPrompt) == systemPrompt # None /\ systemPrompt[1] # <<>>

\* C22: the list sent upstream is the supplied conversation, in order and
\* unmodified, preceded by exactly one system turn holding the prompt when a
\* system prompt is supplied, and is the supplied conversation when none is;
\* the caller's list is not changed.
C22_SystemPromptLeadsConversation ==
  fnOut # None =>
    LET sent == fnOut[1].sent
        msgs == fnIn.messages
    IN /\ fnOut[1].messages = msgs
       /\ ~Supplied(fnIn.systemPrompt) => sent = msgs
       /\ Supplied(fnIn.systemPrompt) =>
            /\ Len(sent) = Len(msgs) + 1
            /\ sent[1].role = "system"
            /\ sent[1].content = fnIn.systemPrompt[1]
            /\ \A i \in 1..Len(msgs) : sent[i + 1] = msgs[i]

C22_Witness ==
  /\ fnOut # None
  /\ fnIn.systemPrompt = Some(<<"p">>)
  /\ fnIn.messages = <<SystemTurn(<<"s">>), UserTurn(<<"q">>)>>
  /\ fnOut[1].sent =
       <<SystemTurn(<<"p">>), SystemTurn(<<"s">>), UserTurn(<<"q">>)>>

\* the model list was obtained from the upstream
TagsObtained(answer) ==
  answer.outcome = "ok" /\ answer.json /\ answer.data.models # None

\* C23: GET /api/models answers {models: []} with a non-2xx status on every
\* failure to obtain the model list, also when the upstream is reachable and
\* answers with a failure status; a failure is never relayed with a 2xx.
C23_ModelsFailureIsNot2xx ==
  (fnOut # None /\ ~TagsObtained(fnIn)) =>
    /\ fnOut[1].status \notin 200..299
    /\ fnOut[1].body = ModelsObject(<<>>)

\* the messages of the stored item, read back
StoredMessages(item) == ParseTurns(item[1].messages.items)

\* C24: if save(messages, model) returns true and nothing was cut, the next
\* load returns the same messages in the same order and the same model.
C24_StorageRoundTrip ==
  [][(/\ fnIn.op = "save"
      /\ fnOut.ok
      /\ Len(stored[1].messages.items) = Len(fnIn.messages)
      /\ fnIn'.op = "load")
       => fnOut'.loaded =
            Some([messages |-> fnIn.messages, model |-> Some(fnIn.model)])]_vars

C24_Witness ==
  /\ fnIn.op = "load"
  /\ fnOut.loaded # None
  /\ fnOut.loaded[1].model = Some("m1")
  /\ fnOut.loaded[1].messages =
       <<AssistantTurn(<<"a">>, Some(DeriveStats(RawStats("T"))))>> \o Pad(10)

\* the last k elements of a list, none for k = 0
Newest(msgs, k) ==
  IF k >= Len(msgs) THEN msgs ELSE SubSeq(msgs, Len(msgs) - k + 1, Len(msgs))

\* C25: save stores the full list or its most recent turns: an over-limit
\* blob is written without its oldest half, a write that fails on the quota
\* is retried with the last 10 turns, and save returns true exactly when a
\* write went through, leaving the item alone otherwise.
C25_SaveDegradesGracefully ==
  [][fnIn'.op = "save" =>
       LET msgs == fnIn'.messages
           over == TextLength(Serialized(msgs, fnIn'.model)) > MAX_STORAGE_SIZE
       IN /\ fnOut'.ok <=> fnOut'.write # 0
          /\ ~fnOut'.ok => stored' = stored
          /\ fnOut'.ok =>
               /\ stored' # None
               /\ stored'[1].model = Some(fnIn'.model)
               /\ \E k \in 0..Len(msgs) : StoredMessages(stored') = Newest(msgs, k)
          /\ (fnOut'.write = 1 /\ ~over) => StoredMessages(stored') = msgs
          /\ (fnOut'.write = 1 /\ over) =>
               StoredMessages(stored') = Newest(msgs, Len(msgs) \div 2)
          /\ fnOut'.write = 2 => StoredMessages(stored') = Newest(msgs, 10)]_vars

\* the text of the item is not valid JSON, or its version is not the
\* current one, or its messages member is not an array
Unusable(item) ==
  /\ item # None
  /\ \/ item[1].kind \in {"empty", "garbage"}
     \/ /\ item[1].kind = "object"
        /\ \/ item[1].version # Some(STORAGE_VERSION)
           \/ ~item[1].messages.array

\* C26: load returns null and removes the stored blob whenever the stored
\* version is not the current one, the messages member is not an array or
\* the text is not valid JSON, and a load right after it returns null too.
C26_LoadDiscardsUnusableBlob ==
  [][fnIn'.op = "load" =>
       /\ Unusable(stored) => (fnOut'.loaded = None /\ stored' = None)
       /\ (fnIn.op = "load" /\ fnOut.loaded = None) => fnOut'.loaded = None]_vars

\* no call of sendMessageCore is running, and its finally block has left the
\* flag, the controller and the timer as they are before a send
Idle ==
  /\ \A s \in Sessions : ~Waiting(s)
  /\ ~loading
  /\ abortControllerRef = 0
  /\ streamingTimeoutRef = 0
  /\ timers = {}

\* C27: every accepted send returns the client to Idle: at the step that
\* ends the request, however it ends, loading is false, the controller
\* reference is null and the timer is cleared, and from any request in
\* flight a state is reached where this holds and a send is accepted.
C27_SendReturnsToIdle ==
  /\ [][(\E s \in Sessions : Waiting(s) /\ ~Waiting(s)') => Idle']_vars
  /\ \A s \in Sessions : Waiting(s) ~> (Idle /\ ~Refuses(<<"q">>))

C27_Witness ==
  /\ Idle
  /\ ~Refuses(<<"q">>)
  /\ sess[1].outcome = "aborted"
  /\ sess[2].outcome = "completed"

\* the toast of the setTimeout callback
SlowResponse == Toast("warning", "Response is taking longer than expected...")

\* the timer of call s runs out: its callback is run, nothing cleared it
Fires(s) ==
  /\ s \in timers
  /\ s \notin timers'
  /\ streamingTimeoutRef' = streamingTimeoutRef

\* C28: when the timer of a send fires while its generation is in flight
\* and no content has arrived, the slow-response warning is shown and the
\* generation goes on; when content has arrived or the call has ended, no
\* warning is shown.
C28_WatchdogWarnsOnlyWhenStalled ==
  [][\A s \in Sessions :
       Fires(s) =>
         IF Waiting(s) /\ sess[s].deltas = 0
         THEN SlowResponse \in toasts' /\ Waiting(s)' /\ ~Aborted(s)'
         ELSE toasts' = toasts]_vars

\* C29: completion only appends: the conversation after a call completes is
\* the conversation right before that step with the new assistant turn at
\* its end, whatever clearChat, editMessage or deleteMessage did meanwhile.
C29_CompletionOnlyAppends ==
  [][\A s \in Sessions :
       (Waiting(s) /\ sess[s].outcome' = "completed")
         => messages' = Append(messages, CompletedTurn(s))]_vars

\* call s is started by this step, as a retry
RetryStarts(s) == sess[s].pc = "none" /\ sess[s].pc' = "fetch" /\ sess[s].isRetry'

\* C30: retries are bounded: the retry counter is always between 0 and 3,
\* retryLastMessage starts a request only when a failed message is recorded
\* and the counter is below 3, and the retry sends the conversation as it is,
\* with no user turn added to it.
C30_RetriesAreBounded ==
  /\ [](retryCountRef \in 0..3)
  /\ [][\A s \in Sessions :
          RetryStarts(s) =>
            /\ lastFailedMessage = Some(sess[s].messageText')
            /\ retryCountRef < 3
            /\ retryCountRef' = retryCountRef + 1
            /\ messages' = messages
            /\ sess[s].newMessages' = messages]_vars

C30_Witness ==
  /\ retryCountRef = 3
  /\ sess[2].pc = "fetch"
  /\ sess[2].isRetry
  /\ Len(messages) = 2
  /\ messages[1] = UserTurn(<<"q">>)
  /\ messages[2].role = "assistant"

====
